---- MODULE Spec2Model ----
(***************************************************************************)
(* rTimelogger: the events table of one calendar date and the operations   *)
(* that mutate it (AddLogic::apply, DeleteLogic::apply), the strict pair   *)
(* recalculation (recalc_pairs_for_date) and the lenient, read-only pair   *)
(* assignment (compute_event_pairs).                                       *)
(*                                                                         *)
(* Every SQL statement runs in autocommit mode (no transaction is opened   *)
(* anywhere in core/add.rs, core/del.rs or db/queries.rs), so a handler is *)
(* a sequence of atomic statements.  A handler is modelled by an operator  *)
(* that yields its outcome together with the table after each statement it *)
(* executed ("trace"); Spec runs a handler as one step, SpecConc statement *)
(* by statement with a second, reading process in between.                 *)
(*                                                                         *)
(* The older commands of main.rs (handle_add and handle_del of commands.rs *)
(* with db.rs) also keep the date's work_sessions row; SpecLegacy runs     *)
(* them, add_event and delete_events_by_ids_and_recompute_sessions each as *)
(* the one transaction they are.                                           *)
(***************************************************************************)
EXTENDS Integers, Sequences, FiniteSets, TLC

\* ---- bounds of the model ------------------------------------------------
\* Spec, SpecConc: clock times 1..MaxTime, at most MaxId rows ever inserted,
\* pair indexes 0..MaxPairIdx.
MaxTime == 2
MaxId == 3
MaxPairIdx == 1
\* SpecWide: the same program explored further.
WideTime == 3
WideId == 4
WidePairIdx == 2
\* SpecPairs: tables of at most MaxEvents rows at times 1..WideTime.
MaxEvents == 3
\* SpecRich: the commands with --pos and --lunch given or omitted.
RichTime == 2
RichId == 3
RichPairIdx == 1
\* SpecLunch: the commands with --lunch given or omitted, --pos omitted.
LunchTime == 2
LunchId == 2
LunchPairIdx == 1
\* SpecEdit: three clock times, so that an In can be put before a stored Out.
EditTime == 3
EditId == 3
EditPairIdx == 2

\* SpecLegacy, SpecPlain: clock times 1..LegacyTime, at most LegacyId rows ever
\* inserted.
LegacyTime == 2
LegacyId == 3

\* SpecDuration: the texts of at most MaxLen characters.
MaxLen == 5

\* Option<T>: None is the empty sequence, Some(v) the one-element sequence.
None == <<>>
Some(v) == <<v>>
IsSome(o) == o # <<>>
Unwrap(o) == o[1]
unwrap_or(o, d) == IF o = <<>> THEN d ELSE o[1]
Opt(S) == {None} \cup {Some(v) : v \in S}

\* The date every operation of the model addresses.
Today == "D1"

VARIABLES
    events,     \* rows of the events table
    nextId,     \* next AUTOINCREMENT id
    op,         \* which branch of which handler the running / last call took
    result,     \* outcome of the last call ("running" while it runs)
    pending,    \* SpecConc: the table after each statement still to run
    outcome,    \* SpecConc: what the running call will return
    seen,       \* SpecConc: what the second process read (Option)
    shuffled,   \* SpecPairs: the rows of `events` inserted in another order
    listed,     \* SpecPairs: compute_event_pairs of both tables (Option)
    work_sessions,  \* legacy commands: the date's work_sessions row (Option)
    aggregated, \* SpecAggregate: the read order and what the call returned
    input,      \* calculator and parser specs: the arguments of the call
    computed    \* calculator and parser specs: what the call returned (Option)

vars == <<events, nextId, op, result, pending, outcome, seen, shuffled, listed,
          work_sessions, aggregated, input, computed>>

concVars == <<pending, outcome, seen>>
pairVars == <<shuffled, listed>>
legacyVars == <<work_sessions, aggregated>>
calcVars == <<input, computed>>

\* ---- Event -----------------------------------------------------------------
\* Event::new: pair = 0; lunch stays an Option until the row is written.
EventNew(id, date, time, kind, location, lunch) ==
    [id |-> id, date |-> date, time |-> time, kind |-> kind,
     location |-> location, lunch |-> lunch, pair |-> 0]

\* A row as map_row returns it: lunch is Some(lunch_break).
Loaded(r) == [r EXCEPT !.lunch = Some(r.lunch)]

\* ORDER BY time ASC; equal times come in rowid order (idx_events_date_time).
Before(a, b) == a.time < b.time \/ (a.time = b.time /\ a.id < b.id)

RECURSIVE SortByTime(_)
SortByTime(S) ==
    IF S = {} THEN <<>>
    ELSE LET m == CHOOSE x \in S : \A y \in S \ {x} : Before(x, y)
         IN <<m>> \o SortByTime(S \ {m})

\* SELECT * FROM events WHERE date = ?1 ORDER BY time ASC
load_events_by_date(tbl, date) ==
    LET s == SortByTime({r \in tbl : r.date = date})
    IN [i \in 1..Len(s) |-> Loaded(s[i])]

\* INSERT INTO events: the row gets the next id, lunch.unwrap_or(0), ev.pair.
insert_event(tbl, id, ev) ==
    tbl \cup {[ev EXCEPT !.id = id, !.lunch = unwrap_or(ev.lunch, 0)]}

\* UPDATE events SET ... WHERE id = ev.id (every column except id)
update_event(tbl, ev) ==
    {IF r.id = ev.id THEN [ev EXCEPT !.lunch = unwrap_or(ev.lunch, 0)] ELSE r
       : r \in tbl}

\* DELETE FROM events WHERE id = ?
delete_event(tbl, id) == {r \in tbl : r.id # id}

\* UPDATE events SET pair = ?1 WHERE id = ?2
SetPair(tbl, id, p) == {IF r.id = id THEN [r EXCEPT !.pair = p] ELSE r : r \in tbl}

\* ---- lenient pair assignment (commands.rs) --------------------------------
\* (mutant) the latest open In instead of the earliest
pop_back(q) == [idx |-> q[Len(q)], rest |-> SubSeq(q, 1, Len(q) - 1)]

\* open_in_queue.pop_front(): the earliest open In and the rest of the queue.
pop_front(q) == [idx |-> Head(q), rest |-> Tail(q)]

\* (mutant) the In takes the counter without advancing it
OpenInSameId(st, ev) ==
    LET res == Append(st.result, [event |-> ev, pair |-> st.pair_counter,
                                  unmatched |-> TRUE])
    IN [st EXCEPT !.result = res,
                  !.open_in_queue = Append(st.open_in_queue, Len(res))]

\* "in": pair_counter += 1, push an unmatched entry, remember its index.
OpenIn(st, ev) ==
    LET c == st.pair_counter + 1
        res == Append(st.result, [event |-> ev, pair |-> c, unmatched |-> TRUE])
    IN [st EXCEPT !.pair_counter = c, !.result = res,
                  !.open_in_queue = Append(st.open_in_queue, Len(res))]

\* "out" with an open In: take over its pair id, both become matched.
CloseOpenIn(st, ev) ==
    LET p == pop_front(st.open_in_queue)
        pair_id == st.result[p.idx].pair
        marked == [st.result EXCEPT ![p.idx].unmatched = FALSE]
    IN [st EXCEPT !.open_in_queue = p.rest,
                  !.result = Append(marked, [event |-> ev, pair |-> pair_id,
                                             unmatched |-> FALSE])]

\* (mutant) the orphan Out reuses the current counter value
OrphanOutReusesId(st, ev) ==
    [st EXCEPT !.result = Append(st.result, [event |-> ev,
                                             pair |-> st.pair_counter,
                                             unmatched |-> TRUE])]

\* "out" with no open In: pair_counter += 1, a fresh unmatched pair.
OrphanOut(st, ev) ==
    LET c == st.pair_counter + 1
    IN [st EXCEPT !.pair_counter = c,
                  !.result = Append(st.result, [event |-> ev, pair |-> c,
                                                unmatched |-> TRUE])]

\* (mutant) a new date leaves the queue and the counter as they are
KeepAcrossDates(st0, ev) == [st0 EXCEPT !.current_date = ev.date]

\* if ev.date != current_date: reset for a new date.
ResetForNewDate(st0, ev) ==
    IF ev.date # st0.current_date
    THEN [st0 EXCEPT !.current_date = ev.date,
                     !.open_in_queue = <<>>, !.pair_counter = 0]
    ELSE st0

\* One iteration of the for loop of compute_event_pairs.
PairStep(st0, ev) ==
    LET st == ResetForNewDate(st0, ev)
    IN IF ev.kind = "in" THEN OpenIn(st, ev)
       ELSE IF st.open_in_queue # <<>> THEN CloseOpenIn(st, ev)
       ELSE OrphanOut(st, ev)

RECURSIVE PairLoop(_, _, _)
PairLoop(evs, i, st) ==
    IF i > Len(evs) THEN st ELSE PairLoop(evs, i + 1, PairStep(st, evs[i]))

compute_event_pairs(evs) ==
    PairLoop(evs, 1, [result |-> <<>>, current_date |-> "",
                      open_in_queue |-> <<>>, pair_counter |-> 0]).result

\* db::list_events_by_date (db.rs): same ordering, rows as they are stored.
list_events_by_date(tbl, date) == SortByTime({r \in tbl : r.date = date})

\* ---- load_pair_by_index (db/queries.rs) ------------------------------------
\* The logical pairs rebuilt in memory: an In opens a pair, an Out joins the
\* LAST pair when that pair has no Out yet, else opens an Out-only pair.
RECURSIVE LogicalPairs(_, _, _)
LogicalPairs(evs, i, pairs) ==
    IF i > Len(evs) THEN pairs
    ELSE LET ev == evs[i]
             n == Len(pairs)
         IN IF ev.kind = "in"
            THEN LogicalPairs(evs, i + 1, Append(pairs, <<Some(ev), None>>))
            ELSE IF n > 0 /\ pairs[n][2] = None
            THEN LogicalPairs(evs, i + 1, [pairs EXCEPT ![n][2] = Some(ev)])
            ELSE LogicalPairs(evs, i + 1, Append(pairs, <<None, Some(ev)>>))

\* Ok(pair) as [ok |-> TRUE, pair |-> <<in, out>>], Err(InvalidPair) otherwise.
load_pair_by_index(tbl, date, pair_index) ==
    LET evs == load_events_by_date(tbl, date)
        pairs == LogicalPairs(evs, 1, <<>>)
    IN IF evs = <<>> \/ pair_index = 0 \/ pair_index - 1 >= Len(pairs)
       THEN [ok |-> FALSE, pair |-> <<None, None>>]
       ELSE [ok |-> TRUE, pair |-> pairs[pair_index]]

\* ---- handler outcomes ------------------------------------------------------
\* [trace: the table after each write statement executed, in order;
\*  nextId: the AUTOINCREMENT counter afterwards; result: Ok or the AppError;
\*  recalc_from: the table recalc_pairs_for_date was entered with, if it was]
Outcome(trace, nid, res) ==
    [trace |-> trace, nextId |-> nid, result |-> res, recalc_from |-> None]

\* `first` (statements already executed) followed by the call `rest`
AndThen(first, rest) == [rest EXCEPT !.trace = first \o rest.trace]

\* The table a trace leaves behind.
Last(tbl, trace) == IF trace = <<>> THEN tbl ELSE trace[Len(trace)]

\* ---- recalc_pairs_for_date (db/queries.rs) ----------------------------------
\* (mutant) an In is accepted while a previous In is open
InNeverRejected(oi) == FALSE

\* an In met while open_in.is_some()
InRejected(oi) == IsSome(oi)

\* an Out met while open_in.is_none()
OutRejected(oi) == oi = None

\* (mutant) current_pair stays as it is
SamePair(p) == p

\* current_pair after an Out has closed the pair
NextPair(p) == p + 1

\* 2) the loop over the loaded events: reject the event, or UPDATE its pair
RECURSIVE RecalcLoop(_, _, _, _, _, _)
RecalcLoop(tbl, nid, evs, i, current_pair, open_in) ==
    IF i > Len(evs) THEN Outcome(<<>>, nid, "Ok")
    ELSE LET ev == evs[i]
             updated == SetPair(tbl, ev.id, current_pair)
         IN IF ev.kind = "in"
            THEN IF InRejected(open_in) THEN Outcome(<<>>, nid, "InvalidTime")
                 ELSE AndThen(<<updated>>,
                              RecalcLoop(updated, nid, evs, i + 1, current_pair,
                                         Some(ev.id)))
            ELSE IF OutRejected(open_in) THEN Outcome(<<>>, nid, "InvalidTime")
                 ELSE AndThen(<<updated>>,
                              RecalcLoop(updated, nid, evs, i + 1,
                                         NextPair(current_pair), None))

\* 1) load the events of the date ordered by time; nothing to do when empty
recalc_pairs_for_date(tbl, nid, date) ==
    LET evs == load_events_by_date(tbl, date)
        done == IF evs = <<>> THEN Outcome(<<>>, nid, "Ok")
                ELSE RecalcLoop(tbl, nid, evs, 1, 1, None)
    IN [done EXCEPT !.recalc_from = Some(tbl)]

\* ---- cli::commands::add::handle: the position handed to AddLogic::apply -----
\* --pos when given, Location::Office otherwise
pos_final(pos) == IF pos = None THEN "O" ELSE Unwrap(pos)

\* ---- AddLogic::apply, edit_mode = true (core/add.rs) -------------------------
\* The in-memory pair after steps 1-4: position, start, end, lunch.
EditedPair(pr, a) ==
    LET in1 == IF IsSome(pr[1])
               THEN Some([Unwrap(pr[1]) EXCEPT !.location = pos_final(a.pos)]) ELSE None
        out1 == IF IsSome(pr[2])
                THEN Some([Unwrap(pr[2]) EXCEPT !.location = pos_final(a.pos)]) ELSE None
        in2 == IF a.start = None THEN in1
               ELSE IF IsSome(in1)
               THEN Some([Unwrap(in1) EXCEPT !.time = Unwrap(a.start)])
               ELSE Some(EventNew(0, Today, Unwrap(a.start), "in", pos_final(a.pos),
                                  a.lunch))
        out2 == IF a.end = None THEN out1
                ELSE IF IsSome(out1)
                THEN Some([Unwrap(out1) EXCEPT !.time = Unwrap(a.end)])
                ELSE Some(EventNew(0, Today, Unwrap(a.end), "out", pos_final(a.pos),
                                   Some(0)))
        out3 == IF IsSome(a.lunch) /\ IsSome(out2)
                THEN Some([Unwrap(out2) EXCEPT !.lunch = a.lunch]) ELSE out2
        in3 == IF IsSome(a.lunch) /\ out2 = None /\ IsSome(in2)
               THEN Some([Unwrap(in2) EXCEPT !.lunch = a.lunch]) ELSE in2
    IN <<in3, out3>>

\* (mutant) every side that is present is inserted as a new row
SaveAlwaysInserts(tbl, nid, oev) ==
    IF oev = None THEN Outcome(<<>>, nid, "Ok")
    ELSE Outcome(<<insert_event(tbl, nid, Unwrap(oev))>>, nid + 1, "Ok")

\* 5) save one side: nothing for None, INSERT when id = 0, UPDATE otherwise
Save(tbl, nid, oev) ==
    IF oev = None THEN Outcome(<<>>, nid, "Ok")
    ELSE IF Unwrap(oev).id = 0
    THEN Outcome(<<insert_event(tbl, nid, Unwrap(oev))>>, nid + 1, "Ok")
    ELSE Outcome(<<update_event(tbl, Unwrap(oev))>>, nid, "Ok")

ApplyEdit(tbl, nid, a) ==
    LET loaded == load_pair_by_index(tbl, Today, Unwrap(a.pair))
    IN IF ~loaded.ok THEN Outcome(<<>>, nid, "InvalidPair")
       ELSE LET pr == EditedPair(loaded.pair, a)
                s1 == Save(tbl, nid, pr[1])
                t1 == Last(tbl, s1.trace)
                s2 == Save(t1, s1.nextId, pr[2])
                t2 == Last(t1, s2.trace)
            IN AndThen(s1.trace \o s2.trace,
                       recalc_pairs_for_date(t2, s2.nextId, Today))

\* ---- AddLogic::apply, edit_mode = false (core/add.rs) ----------------------
\* events_today.iter().rev().find(|ev| ev.kind == In)
LastIn(evs) ==
    LET idx == {i \in 1..Len(evs) : evs[i].kind = "in"}
    IN IF idx = {} THEN None
       ELSE Some(evs[CHOOSE i \in idx : \A j \in idx : j <= i])

\* (mutant) an end time equal to the In's time is accepted
EndRejectedIfEarlier(end_time, in_time) == end_time < in_time

\* "OUT deve essere dopo l'IN": the end time is rejected unless it is later.
EndRejected(end_time, in_time) == end_time <= in_time

\* (mutant) the lunch goes to the first event of the day
ApplyLunchOnlyFirst(tbl, nid, a, events_today) ==
    IF events_today = <<>> THEN Outcome(<<>>, nid, "InvalidTime")
    ELSE Outcome(<<{IF r.id = events_today[1].id
                    THEN [r EXCEPT !.lunch = unwrap_or(a.lunch, 0)]
                    ELSE r : r \in tbl}>>, nid, "Ok")

\* 1) lunch only: UPDATE lunch_break of the row that is last in time order
\* (ORDER BY time DESC LIMIT 1 walks idx_events_date_time backwards: among
\* equal times the largest rowid comes first).
ApplyLunchOnly(tbl, nid, a, events_today) ==
    IF events_today = <<>> THEN Outcome(<<>>, nid, "InvalidTime")
    ELSE LET last == events_today[Len(events_today)]
         IN Outcome(<<{IF r.id = last.id
                       THEN [r EXCEPT !.lunch = unwrap_or(a.lunch, 0)]
                       ELSE r : r \in tbl}>>, nid, "Ok")

\* 3) start only: always a new In
ApplyStartOnly(tbl, nid, a) ==
    LET ev_in == EventNew(0, Today, Unwrap(a.start), "in", pos_final(a.pos),
                          Some(unwrap_or(a.lunch, 0)))
        t1 == insert_event(tbl, nid, ev_in)
    IN AndThen(<<t1>>, recalc_pairs_for_date(t1, nid + 1, Today))

\* 4) end only: an Out that closes the last In
ApplyEndOnly(tbl, nid, a, events_today) ==
    LET last_in == LastIn(events_today)
    IN IF last_in = None THEN Outcome(<<>>, nid, "InvalidTime")
       ELSE IF EndRejected(Unwrap(a.end), Unwrap(last_in).time)
       THEN Outcome(<<>>, nid, "InvalidTime")
       ELSE LET ev_out == EventNew(0, Today, Unwrap(a.end), "out", pos_final(a.pos),
                                   Some(unwrap_or(a.lunch, 0)))
                t1 == insert_event(tbl, nid, ev_out)
            IN AndThen(<<t1>>, recalc_pairs_for_date(t1, nid + 1, Today))

\* 5) start + end: a complete In/Out pair
ApplyStartEnd(tbl, nid, a) ==
    IF EndRejected(Unwrap(a.end), Unwrap(a.start))
    THEN Outcome(<<>>, nid, "InvalidTime")
    ELSE LET ev_in == EventNew(0, Today, Unwrap(a.start), "in", pos_final(a.pos),
                               Some(unwrap_or(a.lunch, 0)))
             ev_out == EventNew(0, Today, Unwrap(a.end), "out", pos_final(a.pos),
                                Some(0))
             t1 == insert_event(tbl, nid, ev_in)
             t2 == insert_event(t1, nid + 1, ev_out)
         IN AndThen(<<t1, t2>>, recalc_pairs_for_date(t2, nid + 2, Today))

\* AddLogic::apply
AddLogic_apply(tbl, nid, a) ==
    IF a.edit_mode THEN ApplyEdit(tbl, nid, a)
    ELSE LET events_today == load_events_by_date(tbl, Today)
         IN IF a.start = None /\ a.end = None /\ IsSome(a.lunch)
            THEN ApplyLunchOnly(tbl, nid, a, events_today)
            ELSE IF a.start = None /\ a.end = None
            THEN Outcome(<<>>, nid, "InvalidTime")
            ELSE IF IsSome(a.start) /\ a.end = None
            THEN ApplyStartOnly(tbl, nid, a)
            ELSE IF a.start = None
            THEN ApplyEndOnly(tbl, nid, a, events_today)
            ELSE ApplyStartEnd(tbl, nid, a)

\* ---- DeleteLogic::apply (core/del.rs) ---------------------------------------
\* events.chunks(2).nth(idx): <<>> stands for None
ChunkNth(evs, idx) ==
    IF 2 * idx + 1 > Len(evs) THEN <<>>
    ELSE IF 2 * idx + 2 > Len(evs) THEN <<evs[2 * idx + 1]>>
    ELSE <<evs[2 * idx + 1], evs[2 * idx + 2]>>

\* for ev in ... { delete_event(pool, ev.id)? }
RECURSIVE DeleteAll(_, _, _)
DeleteAll(tbl, evs, i) ==
    IF i > Len(evs) THEN <<>>
    ELSE LET t1 == delete_event(tbl, evs[i].id)
         IN <<t1>> \o DeleteAll(t1, evs, i + 1)

\* The outcomes of DeleteLogic::apply: one, except for pair = Some(0), where
\* `p - 1` on usize panics in a debug build and wraps in a release build
\* (chunks(2).nth(usize::MAX) is then None).
DeleteLogic_apply(tbl, nid, a) ==
    LET evs == load_events_by_date(tbl, Today)
    IN IF evs = <<>> THEN {Outcome(<<>>, nid, "NoEventsForDate")}
       ELSE IF a.pair = None THEN {Outcome(DeleteAll(tbl, evs, 1), nid, "Ok")}
       ELSE IF Unwrap(a.pair) = 0
       THEN {Outcome(<<>>, nid, "panic"), Outcome(<<>>, nid, "InvalidPair")}
       ELSE LET pair_events == ChunkNth(evs, Unwrap(a.pair) - 1)
            IN IF pair_events = <<>> THEN {Outcome(<<>>, nid, "InvalidPair")}
               ELSE {Outcome(DeleteAll(tbl, pair_events, 1), nid, "Ok")}

\* ---- the commands a user can issue ------------------------------------------
\* A domain bounds the arguments: [times, pos (the --pos options), lunch,
\* pairs, maxId].
Small == [times |-> 1..MaxTime, pos |-> {None}, lunch |-> {},
          pairs |-> 0..MaxPairIdx, maxId |-> MaxId]
Wide == [times |-> 1..WideTime, pos |-> {None}, lunch |-> {},
         pairs |-> 0..WidePairIdx, maxId |-> WideId]
Lunch == [times |-> 1..LunchTime, pos |-> {None}, lunch |-> {30},
          pairs |-> 0..LunchPairIdx, maxId |-> LunchId]
Edits == [times |-> 1..EditTime, pos |-> {None}, lunch |-> {},
          pairs |-> 0..EditPairIdx, maxId |-> EditId]
Rich == [times |-> 1..RichTime, pos |-> {None, Some("R")}, lunch |-> {30},
         pairs |-> 0..RichPairIdx, maxId |-> RichId]

AddArgs(D) == [name : {"add"}, edit_mode : {FALSE}, start : Opt(D.times),
               end : Opt(D.times), lunch : Opt(D.lunch),
               pos : D.pos, pair : {None}]
EditArgs(D) == [name : {"add"}, edit_mode : {TRUE}, start : Opt(D.times),
                end : Opt(D.times), lunch : Opt(D.lunch),
                pos : D.pos, pair : {Some(n) : n \in D.pairs}]
DelArgs(D) == [name : {"del"}, edit_mode : {FALSE}, start : {None},
               end : {None}, lunch : {None}, pos : {None},
               pair : Opt(D.pairs)]

\* The branch of the handler that the arguments select.
Branch(a) ==
    IF a.name = "del" THEN (IF a.pair = None THEN "del_day" ELSE "del_pair")
    ELSE IF a.edit_mode THEN "edit"
    ELSE IF a.start = None /\ a.end = None /\ IsSome(a.lunch) THEN "lunch_only"
    ELSE IF a.start = None /\ a.end = None THEN "nothing"
    ELSE IF a.end = None THEN "start_only"
    ELSE IF a.start = None THEN "end_only"
    ELSE "start_end"

Outcomes(a) ==
    IF a.name = "del" THEN DeleteLogic_apply(events, nextId, a)
    ELSE {AddLogic_apply(events, nextId, a)}

Init ==
    /\ events = {}
    /\ nextId = 1
    /\ op = "none"
    /\ result = "none"
    /\ pending = <<>>
    /\ outcome = "none"
    /\ seen = None
    /\ shuffled = {}
    /\ listed = None
    /\ work_sessions = None
    /\ aggregated = None
    /\ input = None
    /\ computed = None

\* ---- Spec: a single process, one command after the other --------------------
\* A whole handler call: every statement of its trace, then its result.
Call(a, D) ==
    /\ result # "running"
    /\ \E o \in Outcomes(a) :
          /\ o.nextId <= D.maxId + 1
          /\ events' = Last(events, o.trace)
          /\ nextId' = o.nextId
          /\ result' = o.result
    /\ op' = Branch(a)
    /\ UNCHANGED <<concVars, pairVars, legacyVars, calcVars>>

Add(D) == \E a \in AddArgs(D) : Call(a, D)
Edit(D) == \E a \in EditArgs(D) : Call(a, D)
Del(D) == \E a \in DelArgs(D) : Call(a, D)

Next == Add(Small) \/ Edit(Small) \/ Del(Small)

Spec == Init /\ [][Next]_vars

NextWide == Add(Wide) \/ Edit(Wide) \/ Del(Wide)

SpecWide == Init /\ [][NextWide]_vars

\* ---- SpecOk: the runs in which every command returned success ---------------
AddOk == Add(Wide) /\ result' = "Ok"
EditOk == Edit(Wide) /\ result' = "Ok"
DelOk == Del(Wide) /\ result' = "Ok"

NextOk == AddOk \/ EditOk \/ DelOk

SpecOk == Init /\ [][NextOk]_vars

\* ---- SpecRich: the commands with and without --pos and --lunch --------------
NextRich == Add(Rich) \/ Edit(Rich) \/ Del(Rich)

SpecRich == Init /\ [][NextRich]_vars

\* ---- SpecEdit: the commands over three clock times --------------------------
NextEdit == Add(Edits) \/ Edit(Edits) \/ Del(Edits)

SpecEdit == Init /\ [][NextEdit]_vars

\* ---- SpecLunch: the commands with and without --lunch -----------------------
NextLunch == Add(Lunch) \/ Edit(Lunch) \/ Del(Lunch)

SpecLunch == Init /\ [][NextLunch]_vars

\* ---- SpecConc: the same commands statement by statement, and a reader -------
\* The first statement of a call (the call's statements are fixed by the table
\* it starts from: no other process writes).  nextId already takes the value
\* it has when the call returns; nothing reads it before.
CallBegin(a, D) ==
    /\ result # "running"
    /\ \E o \in Outcomes(a) :
          /\ o.nextId <= D.maxId + 1
          /\ nextId' = o.nextId
          /\ IF Len(o.trace) <= 1
             THEN /\ events' = Last(events, o.trace)
                  /\ pending' = <<>>
                  /\ outcome' = "none"
                  /\ result' = o.result
             ELSE /\ events' = o.trace[1]
                  /\ pending' = Tail(o.trace)
                  /\ outcome' = o.result
                  /\ result' = "running"
    /\ op' = Branch(a)
    /\ seen' = None
    /\ UNCHANGED <<pairVars, legacyVars, calcVars>>

\* The next statement of the running call; after the last one it returns.
Statement ==
    /\ result = "running"
    /\ events' = Head(pending)
    /\ pending' = Tail(pending)
    /\ IF Tail(pending) = <<>>
       THEN /\ result' = outcome
            /\ outcome' = "none"
       ELSE UNCHANGED <<result, outcome>>
    /\ UNCHANGED <<nextId, op, seen, pairVars, legacyVars, calcVars>>

\* A second process reads the date's events (load_events_by_date).
Read ==
    /\ seen' = Some([tbl |-> events, during |-> result = "running"])
    /\ UNCHANGED <<events, nextId, op, result, pending, outcome, pairVars,
                   legacyVars, calcVars>>

AddConc == \E a \in AddArgs(Small) : CallBegin(a, Small)
EditConc == \E a \in EditArgs(Small) : CallBegin(a, Small)
DelConc == \E a \in DelArgs(Small) : CallBegin(a, Small)

NextConc == AddConc \/ EditConc \/ DelConc \/ Statement \/ Read

SpecConc == Init /\ [][NextConc]_vars

\* ---- SpecPairs: the lenient assignment on tables of every shape -------------
PairTimes == 1..WideTime

Row(id, tk) == [id |-> id, date |-> Today, time |-> tk[1], kind |-> tk[2],
                location |-> "O", lunch |-> 0, pair |-> 0]

\* Any rows of one date; `shuffled` holds the same rows inserted in another
\* order (ids are handed out in insertion order).
InitPairs ==
    /\ \E n \in 0..MaxEvents :
         \E tk \in [1..n -> PairTimes \X {"in", "out"}] :
           \E perm \in Permutations(1..n) :
              /\ events = {Row(i, tk[i]) : i \in 1..n}
              /\ shuffled = {Row(perm[i], tk[i]) : i \in 1..n}
              /\ nextId = n + 1
    /\ op = "none"
    /\ result = "none"
    /\ pending = <<>>
    /\ outcome = "none"
    /\ seen = None
    /\ listed = None
    /\ work_sessions = None
    /\ aggregated = None
    /\ input = None
    /\ computed = None

\* handle_del / print_events_table: list the date's events, assign pairs.
ListPairs ==
    /\ listed = None
    /\ listed' = Some(<<compute_event_pairs(list_events_by_date(events, Today)),
                        compute_event_pairs(list_events_by_date(shuffled, Today))>>)
    /\ op' = "list"
    /\ UNCHANGED <<events, nextId, result, concVars, shuffled, legacyVars, calcVars>>

NextPairs == ListPairs

SpecPairs == InitPairs /\ [][NextPairs]_vars

\* ---- legacy commands (commands.rs, db.rs): events and work_sessions ---------
\* The location codes handle_add accepts for --pos.
Positions == {"O", "R", "H", "C"}

\* SELECT DISTINCT position FROM events WHERE date = ?1: every distinct value
\* once, in an order the query does not fix.
select_distinct_position(tbl, date) ==
    LET S == {r.location : r \in {q \in tbl : q.date = date}}
    IN {o \in [1..Cardinality(S) -> S] :
           \A i, j \in 1..Cardinality(S) : i # j => o[i] # o[j]}

\* (mutant) Mixed only from the third distinct value on
MoreThanTwo(set) == Cardinality(set) > 2

\* set.len() > 1
MoreThanOne(set) == Cardinality(set) > 1

\* The for loop of aggregate_position_from_events and what follows it.
RECURSIVE AggregateLoop(_, _, _)
AggregateLoop(rows, i, set) ==
    IF i > Len(rows)
    THEN IF set = {} THEN None ELSE Some(CHOOSE pos \in set : TRUE)
    ELSE LET inserted == set \cup {rows[i]}
         IN IF MoreThanOne(inserted) THEN Some("M")
            ELSE AggregateLoop(rows, i + 1, inserted)

\* aggregate_position_from_events, given the rows in the order they are read.
aggregate_position_from_events(rows) == AggregateLoop(rows, 1, {})

\* ---- SpecAggregate: the day's position from tables of every mix -------------
InitAggregate ==
    /\ \E n \in 0..MaxEvents :
         \E loc \in [1..n -> Positions] :
            /\ events = {[Row(i, <<1, "in">>) EXCEPT !.location = loc[i]] :
                           i \in 1..n}
            /\ nextId = n + 1
    /\ op = "none"
    /\ result = "none"
    /\ pending = <<>>
    /\ outcome = "none"
    /\ seen = None
    /\ shuffled = {}
    /\ listed = None
    /\ work_sessions = None
    /\ aggregated = None
    /\ input = None
    /\ computed = None

\* One call of aggregate_position_from_events; the rows arrive in any order.
AggregatePosition ==
    /\ aggregated = None
    /\ \E rows \in select_distinct_position(events, Today) :
          aggregated' = Some([rows |-> rows,
                              returned |-> aggregate_position_from_events(rows)])
    /\ op' = "aggregate"
    /\ UNCHANGED <<events, nextId, result, concVars, pairVars, work_sessions,
                   calcVars>>

NextAggregate == AggregatePosition

SpecAggregate == InitAggregate /\ [][NextAggregate]_vars

\* ---- work_sessions: the date's aggregate row (db.rs) ------------------------
\* Config::default: default_position, min/max_duration_lunch_break.
default_position == "O"
min_duration_lunch_break == 30
max_duration_lunch_break == 90

\* The auto-lunch window of add_event, in minutes after midnight.
noon == 720
latest == 870

\* NaiveTime::parse_from_str: the model's time t is the clock time 11:30,
\* 12:30, 13:30, ... in minutes after midnight.
ClockMinutes(t) == 630 + 60 * t

\* A row as INSERT INTO work_sessions creates it: start_time and end_time
\* DEFAULT '' (here 0, no clock time), lunch_break DEFAULT 0.
new_session(position) ==
    [position |-> position, start_time |-> 0, lunch_break |-> 0, end_time |-> 0]

\* upsert_field / force_set_field and the UPDATE-else-INSERT statements of
\* delete_events_by_ids_and_recompute_sessions: UPDATE work_sessions SET
\* field = value WHERE date; when no row changed, INSERT one with default_pos.
upsert_field(ws, field, value, default_pos) ==
    IF IsSome(ws) THEN Some([Unwrap(ws) EXCEPT ![field] = value])
    ELSE Some([new_session(default_pos) EXCEPT ![field] = value])

upsert_position(ws, pos) == upsert_field(ws, "position", pos, pos)
upsert_lunch(ws, lunch) == upsert_field(ws, "lunch_break", lunch, "O")
upsert_end(ws, end) == upsert_field(ws, "end_time", end, "O")
force_set_position(ws, pos) == upsert_field(ws, "position", pos, pos)

\* upsert_start: sets start_time only where it is still empty; inserts the
\* row when the date has none.
upsert_start(ws, start) ==
    IF IsSome(ws) /\ Unwrap(ws).start_time = 0
    THEN Some([Unwrap(ws) EXCEPT !.start_time = start])
    ELSE IF IsSome(ws) THEN ws
    ELSE upsert_field(ws, "start_time", start, "O")

\* UPDATE events SET lunch_break = ?1 WHERE id = ?2
set_event_lunch(tbl, id, lunch) ==
    {IF r.id = id THEN [r EXCEPT !.lunch = lunch] ELSE r : r \in tbl}

\* The rows a "... ORDER BY time DESC LIMIT 1" query can return: the order
\* among rows of equal time is not fixed by the query.
LastByTime(rows) == {r \in rows : \A q \in rows : q.time <= r.time}

\* last_out_before: the latest Out strictly before `time`.
last_out_before(tbl, date, time) ==
    LastByTime({r \in tbl : r.date = date /\ r.kind = "out" /\ r.time < time})

\* The aggregate of the date's positions, then force_set_position (the
\* callers of aggregate_position_from_events in handle_add).
recompute_position(tbl, ws) ==
    LET rows == CHOOSE o \in select_distinct_position(tbl, Today) : TRUE
        agg == aggregate_position_from_events(rows)
    IN IF IsSome(agg) THEN force_set_position(ws, Unwrap(agg)) ELSE ws

\* add_event's auto-lunch: the lunch to store on prev_out, 0 for none.
auto_lunch(prev_out, time, position_to_use) ==
    LET prev_time == ClockMinutes(prev_out.time)
        new_time == ClockMinutes(time)
        delta == new_time - prev_time
        lunch_val == IF delta < min_duration_lunch_break
                     THEN min_duration_lunch_break
                     ELSE IF delta > max_duration_lunch_break
                     THEN max_duration_lunch_break
                     ELSE delta
    IN IF /\ prev_out.location # "H" /\ position_to_use # "H"
          /\ prev_out.lunch = 0
          /\ prev_time >= noon /\ new_time <= latest /\ new_time > prev_time
       THEN lunch_val
       ELSE 0

\* add_event once the two LIMIT 1 queries have answered: INSERT the event,
\* dual-write start/end to work_sessions, auto-lunch on the previous Out.
add_event_with(st, time, kind, position_to_use, prev_out) ==
    LET row == [id |-> st.nextId, date |-> Today, time |-> time, kind |-> kind,
                location |-> position_to_use, lunch |-> 0, pair |-> 0]
        tbl == st.events \cup {row}
        ws == IF kind = "in" THEN upsert_start(st.ws, time)
              ELSE upsert_end(st.ws, time)
        lunch_val == IF kind = "in" /\ IsSome(prev_out)
                     THEN auto_lunch(Unwrap(prev_out), time, position_to_use)
                     ELSE 0
    IN IF lunch_val > 0
       THEN [events |-> set_event_lunch(tbl, Unwrap(prev_out).id, lunch_val),
             ws |-> upsert_lunch(ws, lunch_val),
             nextId |-> st.nextId + 1, event_id |-> st.nextId]
       ELSE [events |-> tbl, ws |-> ws,
             nextId |-> st.nextId + 1, event_id |-> st.nextId]

\* add_event (one transaction): the position is the one given, else the
\* default, and an Out without one inherits that of the last In at or before
\* its time.
add_event(st, time, kind, position) ==
    LET ins == LastByTime({r \in st.events : r.date = Today /\ r.kind = "in"
                                              /\ r.time <= time})
        positions == IF position = None /\ kind = "out" /\ ins # {}
                     THEN {r.location : r \in ins}
                     ELSE {unwrap_or(position, default_position)}
        outs == last_out_before(st.events, Today, time)
        prevs == IF kind = "in" /\ outs # {} THEN {Some(r) : r \in outs}
                 ELSE {None}
    IN {add_event_with(st, time, kind, p, prev) : p \in positions, prev \in prevs}

\* ---- handle_add, normal mode (commands.rs) ----------------------------------
\* "Handle position": upsert_position.
AddPosition(st, a) ==
    IF IsSome(a.pos) THEN [st EXCEPT !.ws = upsert_position(st.ws, Unwrap(a.pos))]
    ELSE st

\* "Handle start time": upsert_start, the In event, the aggregate position.
AddStart(st, a) ==
    IF a.start = None THEN {st}
    ELSE {[events |-> o.events, nextId |-> o.nextId,
           ws |-> recompute_position(o.events, o.ws)] :
            o \in add_event([st EXCEPT !.ws = upsert_start(st.ws, Unwrap(a.start))],
                            Unwrap(a.start), "in", a.pos)}

\* "Handle lunch": upsert_lunch, and the day's last Out takes the lunch when
\* it has none.
AddLunch(st, a) ==
    IF a.lunch = None THEN {st}
    ELSE LET ws == upsert_lunch(st.ws, Unwrap(a.lunch))
             outs == LastByTime({r \in st.events : r.date = Today
                                                    /\ r.kind = "out"})
         IN IF outs = {} THEN {[st EXCEPT !.ws = ws]}
            ELSE {[st EXCEPT !.ws = ws,
                             !.events = IF out_ev.lunch = 0
                                        THEN set_event_lunch(st.events, out_ev.id,
                                                             Unwrap(a.lunch))
                                        ELSE st.events] : out_ev \in outs}

\* "Handle end time": upsert_end, the Out event with the lunch given, the
\* aggregate position.
AddEnd(st, a) ==
    IF a.end = None THEN {st}
    ELSE {LET tbl == IF IsSome(a.lunch) /\ Unwrap(a.lunch) > 0
                     THEN set_event_lunch(o.events, o.event_id, Unwrap(a.lunch))
                     ELSE o.events
          IN [events |-> tbl, nextId |-> o.nextId,
              ws |-> recompute_position(tbl, o.ws)] :
            o \in add_event([st EXCEPT !.ws = upsert_end(st.ws, Unwrap(a.end))],
                            Unwrap(a.end), "out", a.pos)}

\* handle_add without --edit: position, start, lunch, end, in this order;
\* every state a step can leave behind is one the next step can start in.
handle_add(st, a) ==
    LET after_start == AddStart(AddPosition(st, a), a)
        after_lunch == UNION {AddLunch(s, a) : s \in after_start}
    IN UNION {AddEnd(s, a) : s \in after_lunch}

\* ---- delete_events_by_ids_and_recompute_sessions (db.rs) --------------------
\* (mutant) end_time from the latest Out only
MaxOutTime(remaining) ==
    LET outs == {r \in remaining : r.kind = "out"}
    IN IF outs = {} THEN CHOOSE t \in {r.time : r \in remaining} :
                            \A r \in remaining : r.time <= t
       ELSE CHOOSE t \in {r.time : r \in outs} : \A r \in outs : r.time <= t

\* end_time: the maximum time among the remaining events
MaxTimeOf(remaining) ==
    CHOOSE t \in {r.time : r \in remaining} : \A r \in remaining : r.time <= t

\* start_time: the earliest In if any, otherwise the earliest event
MinTimeOf(remaining) ==
    LET ins == {r \in remaining : r.kind = "in"}
        from == IF ins # {} THEN ins ELSE remaining
    IN CHOOSE t \in {r.time : r \in from} : \A r \in from : t <= r.time

\* (mutant) the position is written whenever events remain
AnyCount(cnt) == cnt >= 1

\* cnt == 1 of SELECT COUNT(DISTINCT position)
OneDistinct(cnt) == cnt = 1

\* The position step: SELECT COUNT(DISTINCT position), MIN(position).
recompute_single_position(ws, remaining) ==
    LET S == {r.location : r \in remaining}
    IN IF OneDistinct(Cardinality(S))
       THEN upsert_field(ws, "position", CHOOSE pos \in S : TRUE,
                         CHOOSE pos \in S : TRUE)
       ELSE ws

\* One transaction: DELETE the ids, then rebuild the date's work_sessions row
\* from the remaining events, or DELETE it when none remains.
delete_events_by_ids_and_recompute_sessions(st, ids) ==
    LET remaining == {r \in st.events : r.id \notin ids}
        ws1 == upsert_field(st.ws, "end_time", MaxTimeOf(remaining), "O")
        ws2 == upsert_field(ws1, "start_time", MinTimeOf(remaining), "O")
        outs == LastByTime({r \in remaining : r.kind = "out"})
    IN IF ids = {} THEN {st}
       ELSE IF remaining = {} THEN {[st EXCEPT !.events = remaining, !.ws = None]}
       ELSE IF outs = {}
       THEN {[st EXCEPT !.events = remaining,
                        !.ws = recompute_single_position(ws2, remaining)]}
       ELSE {[st EXCEPT !.events = remaining,
                        !.ws = recompute_single_position(
                                  upsert_field(ws2, "lunch_break", out_ev.lunch, "O"),
                                  remaining)] : out_ev \in outs}

\* ---- handle_del (commands.rs) -----------------------------------------------
\* The ids compute_event_pairs labels with pair_id.
ids_to_delete(tbl, pair_id) ==
    LET enriched == compute_event_pairs(list_events_by_date(tbl, Today))
    IN {enriched[i].event.id : i \in {j \in 1..Len(enriched) :
                                         enriched[j].pair = pair_id}}

\* handle_del with --pair; `confirmed` is the answer to the prompt.
handle_del_pair(st, pair_id, confirmed) ==
    IF st.events = {} THEN {[st |-> st, result |-> "NoEvents"]}
    ELSE IF ids_to_delete(st.events, pair_id) = {}
    THEN {[st |-> st, result |-> "PairNotFound"]}
    ELSE IF ~confirmed THEN {[st |-> st, result |-> "Aborted"]}
    ELSE {[st |-> after, result |-> "Deleted"] :
            after \in delete_events_by_ids_and_recompute_sessions(
                         st, ids_to_delete(st.events, pair_id))}

\* DELETE FROM events WHERE date = ?1
delete_events_by_date(tbl, date) == {r \in tbl : r.date # date}

\* (mutant) the date's aggregate row survives the whole-day delete
keep_sessions_by_date(ws) == ws

\* DELETE FROM work_sessions WHERE date = ?1
delete_sessions_by_date(ws) == None

\* handle_del without --pair: delete_events_by_date, delete_sessions_by_date.
handle_del_day(st, confirmed) ==
    IF st.events = {} /\ st.ws = None THEN [st |-> st, result |-> "NothingFound"]
    ELSE IF ~confirmed THEN [st |-> st, result |-> "Aborted"]
    ELSE [st |-> [st EXCEPT !.events = delete_events_by_date(st.events, Today),
                            !.ws = delete_sessions_by_date(st.ws)],
          result |-> "Deleted"]

\* ---- SpecLegacy: handle_add and handle_del, one command after the other -----
LegacyTimes == 1..LegacyTime
LegacyPos == {None, Some("R")}
LegacyLunch == {None, Some(30)}
LegacyAddArgs(lunches) == [pos : LegacyPos, start : Opt(LegacyTimes),
                           lunch : lunches, end : Opt(LegacyTimes)]

Current == [events |-> events, ws |-> work_sessions, nextId |-> nextId]

Become(st) ==
    /\ events' = st.events
    /\ work_sessions' = st.ws
    /\ nextId' = st.nextId

\* The events one handle_add call inserts: an In for --in, an Out for --out.
Inserts(a) == Cardinality({f \in {"start", "end"} : IsSome(a[f])})

LegacyAdd(lunches) ==
    /\ \E a \in LegacyAddArgs(lunches) :
          /\ nextId + Inserts(a) <= LegacyId + 1
          /\ \E st \in handle_add(Current, a) : Become(st)
    /\ op' = "add"
    /\ result' = "Ok"
    /\ UNCHANGED <<concVars, pairVars, aggregated, calcVars>>

LegacyDelPair ==
    /\ \E pair_id \in 1..LegacyId, confirmed \in BOOLEAN :
          \E o \in handle_del_pair(Current, pair_id, confirmed) :
             /\ Become(o.st)
             /\ result' = o.result
    /\ op' = "del_pair"
    /\ UNCHANGED <<concVars, pairVars, aggregated, calcVars>>

LegacyDelDay ==
    /\ \E confirmed \in BOOLEAN :
          LET o == handle_del_day(Current, confirmed)
          IN /\ Become(o.st)
             /\ result' = o.result
    /\ op' = "del_day"
    /\ UNCHANGED <<concVars, pairVars, aggregated, calcVars>>

NextLegacy == LegacyAdd(LegacyLunch) \/ LegacyDelPair \/ LegacyDelDay

SpecLegacy == Init /\ [][NextLegacy]_vars

\* ---- SpecPlain: the same commands, --lunch never given -----------------------
NextPlain == LegacyAdd({None}) \/ LegacyDelPair \/ LegacyDelDay

SpecPlain == Init /\ [][NextPlain]_vars

\* ---- Core::parse_work_duration_to_minutes (core/logic.rs) -------------------
\* A &str is the sequence of its characters.
Digits == {"0", "1", "2", "3", "4", "5", "6", "7", "8", "9"}

DigitValue(c) ==
    CASE c = "0" -> 0 [] c = "1" -> 1 [] c = "2" -> 2 [] c = "3" -> 3
      [] c = "4" -> 4 [] c = "5" -> 5 [] c = "6" -> 6 [] c = "7" -> 7
      [] c = "8" -> 8 [] c = "9" -> 9

\* str::trim: without the leading and the trailing white space.
RECURSIVE trim_start(_)
trim_start(s) ==
    IF s # <<>> /\ Head(s) = " " THEN trim_start(Tail(s)) ELSE s

RECURSIVE trim_end(_)
trim_end(s) ==
    IF s # <<>> /\ s[Len(s)] = " " THEN trim_end(SubSeq(s, 1, Len(s) - 1)) ELSE s

trim(s) == trim_end(trim_start(s))

\* str::find(char): the index of the first occurrence (1-based), or None.
find(s, c) ==
    IF \E i \in 1..Len(s) : s[i] = c
    THEN Some(CHOOSE i \in 1..Len(s) : s[i] = c /\ \A j \in 1..(i - 1) : s[j] # c)
    ELSE None

\* The value of a run of decimal digits.
RECURSIVE DecimalValue(_)
DecimalValue(s) ==
    IF s = <<>> THEN 0
    ELSE 10 * DecimalValue(SubSeq(s, 1, Len(s) - 1)) + DigitValue(s[Len(s)])

\* str::parse::<i64>: an optional sign, then one or more digits, nothing else.
parse_i64(s) ==
    LET signed == s # <<>> /\ Head(s) \in {"+", "-"}
        digits == IF signed THEN Tail(s) ELSE s
    IN IF digits = <<>> \/ \E i \in 1..Len(digits) : digits[i] \notin Digits
       THEN None
       ELSE IF signed /\ Head(s) = "-" THEN Some(0 - DecimalValue(digits))
       ELSE Some(DecimalValue(digits))

\* h_part.trim().parse().unwrap_or(8)
HoursOrEight(h_part) == unwrap_or(parse_i64(trim(h_part)), 8)

\* The branch taken when the text holds an 'h' at h_pos.
ParseWithH(s, h_pos) ==
    LET h_part == SubSeq(s, 1, h_pos - 1)
        hours == HoursOrEight(h_part)
        rest == trim(SubSeq(s, h_pos + 1, Len(s)))
        m_pos == find(rest, "m")
        rest_no_m == IF IsSome(m_pos)
                     THEN trim(SubSeq(rest, 1, Unwrap(m_pos) - 1))
                     ELSE rest
        minutes == IF rest # <<>> /\ rest_no_m # <<>>
                   THEN unwrap_or(parse_i64(rest_no_m), 0)
                   ELSE 0
    IN hours * 60 + minutes

\* The branch taken when the text holds no 'h' but a ':' at colon_pos.
ParseWithColon(s, colon_pos) ==
    LET hours == unwrap_or(parse_i64(trim(SubSeq(s, 1, colon_pos - 1))), 8)
        minutes == unwrap_or(parse_i64(trim(SubSeq(s, colon_pos + 1, Len(s)))), 0)
    IN hours * 60 + minutes

parse_work_duration_to_minutes(str) ==
    LET s == trim(str)
    IN IF s = <<>> THEN 8 * 60
       ELSE IF IsSome(find(s, "h")) THEN ParseWithH(s, Unwrap(find(s, "h")))
       ELSE IF IsSome(find(s, ":")) THEN ParseWithColon(s, Unwrap(find(s, ":")))
       ELSE IF IsSome(parse_i64(s)) THEN Unwrap(parse_i64(s)) * 60
       ELSE 8 * 60

\* ---- SpecDuration: parse_work_duration_to_minutes on every short text -------
DurationChars == {"7", "3", "h", "m", ":", " "}
Texts(chars, n) == UNION {[1..k -> chars] : k \in 0..n}

InitDuration ==
    /\ input \in Texts(DurationChars, MaxLen)
    /\ computed = None
    /\ events = {}
    /\ nextId = 1
    /\ op = "none"
    /\ result = "none"
    /\ pending = <<>>
    /\ outcome = "none"
    /\ seen = None
    /\ shuffled = {}
    /\ listed = None
    /\ work_sessions = None
    /\ aggregated = None

ParseWorkDuration ==
    /\ computed = None
    /\ computed' = Some(parse_work_duration_to_minutes(input))
    /\ op' = "parse_work_duration"
    /\ UNCHANGED <<events, nextId, result, concVars, pairVars, legacyVars, input>>

NextDuration == ParseWorkDuration

SpecDuration == InitDuration /\ [][NextDuration]_vars

\* ---- build_timeline (core/calculator/timeline.rs) ---------------------------
\* sorted.sort_by_key(|e| e.timestamp()): a stable sort; the events of one date
\* have their clock time (minutes after midnight) as key.
RECURSIVE InsertByKey(_, _)
InsertByKey(sorted, ev) ==
    IF sorted = <<>> THEN <<ev>>
    ELSE IF sorted[Len(sorted)].time <= ev.time THEN Append(sorted, ev)
    ELSE Append(InsertByKey(SubSeq(sorted, 1, Len(sorted) - 1), ev),
                sorted[Len(sorted)])

RECURSIVE sort_by_key(_)
sort_by_key(evs) ==
    IF evs = <<>> THEN <<>>
    ELSE InsertByKey(sort_by_key(SubSeq(evs, 1, Len(evs) - 1)), evs[Len(evs)])

\* (mutant) the lunch minutes are not taken off the duration
GrossDuration(in_ev, out_ev) == out_ev.time - in_ev.time

\* (out_ev.timestamp() - in_ev.timestamp()).num_minutes() - in_ev.lunch
PairDuration(in_ev, out_ev) ==
    (out_ev.time - in_ev.time) - unwrap_or(in_ev.lunch, 0)

ClosedPair(in_ev, out_ev) ==
    [in_event |-> in_ev, out_event |-> Some(out_ev),
     duration_minutes |-> PairDuration(in_ev, out_ev),
     lunch_minutes |-> unwrap_or(in_ev.lunch, 0), position |-> in_ev.location]

OpenPair(ev) ==
    [in_event |-> ev, out_event |-> None, duration_minutes |-> 0,
     lunch_minutes |-> unwrap_or(ev.lunch, 0), position |-> ev.location]

\* The while loop of build_timeline: pairs and total so far, from index i on.
RECURSIVE BuildPairs(_, _, _)
BuildPairs(sorted, i, acc) ==
    IF i > Len(sorted) THEN acc
    ELSE IF sorted[i].kind = "in"
    THEN IF i + 1 <= Len(sorted) /\ sorted[i + 1].kind = "out"
         THEN LET pair == ClosedPair(sorted[i], sorted[i + 1])
              IN BuildPairs(sorted, i + 2,
                            [pairs |-> Append(acc.pairs, pair),
                             total |-> acc.total + pair.duration_minutes])
         ELSE BuildPairs(sorted, i + 1,
                         [acc EXCEPT !.pairs = Append(@, OpenPair(sorted[i]))])
    ELSE BuildPairs(sorted, i + 1, acc)

\* The gaps between consecutive pairs (pairs.windows(2)).
Gaps(pairs) ==
    LET W == {i \in 1..(Len(pairs) - 1) :
                /\ IsSome(pairs[i].out_event)
                /\ pairs[i + 1].in_event.time > Unwrap(pairs[i].out_event).time}
    IN {[start |-> Unwrap(pairs[i].out_event).time,
         end |-> pairs[i + 1].in_event.time,
         duration_minutes |-> pairs[i + 1].in_event.time
                              - Unwrap(pairs[i].out_event).time,
         is_work_gap |-> FALSE] : i \in W}

build_timeline(evs) ==
    IF evs = <<>>
    THEN [events |-> <<>>, pairs |-> <<>>, gaps |-> {}, total_worked_minutes |-> 0]
    ELSE LET sorted == sort_by_key(evs)
             built == BuildPairs(sorted, 1, [pairs |-> <<>>, total |-> 0])
         IN [events |-> sorted, pairs |-> built.pairs, gaps |-> Gaps(built.pairs),
             total_worked_minutes |-> built.total]

\* ---- calculate_expected, calculate_surplus (core/calculator) ----------------
\* NaiveTime::parse_from_str(s, "%H:%M"): one or two digits, ':', one or two
\* digits, hour below 24 and minute below 60; the minutes after midnight.
parse_hm(s) ==
    LET colon == find(s, ":")
        h == IF IsSome(colon) THEN SubSeq(s, 1, Unwrap(colon) - 1) ELSE <<>>
        m == IF IsSome(colon) THEN SubSeq(s, Unwrap(colon) + 1, Len(s)) ELSE <<>>
        numeric(t) == Len(t) \in 1..2 /\ \A i \in 1..Len(t) : t[i] \in Digits
    IN IF numeric(h) /\ numeric(m) /\ DecimalValue(h) < 24 /\ DecimalValue(m) < 60
       THEN Some(DecimalValue(h) * 60 + DecimalValue(m))
       ELSE None

\* parse_lunch_window: "HH:MM-HH:MM" as (start, end), None when malformed.
parse_lunch_window(s) ==
    LET dash == find(s, "-")
        start == IF IsSome(dash)
                 THEN parse_hm(trim(SubSeq(s, 1, Unwrap(dash) - 1))) ELSE None
        end == IF IsSome(dash)
               THEN parse_hm(trim(SubSeq(s, Unwrap(dash) + 1, Len(s)))) ELSE None
    IN IF IsSome(start) /\ IsSome(end) THEN Some(<<Unwrap(start), Unwrap(end)>>)
       ELSE None

\* (mutant) the lunch is inferred only strictly before the window's end
StartsBefore(start_time, win_end) == start_time < win_end

\* start_time <= win_end
StartsInTime(start_time, win_end) == start_time <= win_end

calculate_expected(timeline, cfg) ==
    IF timeline.pairs = <<>> THEN 0
    ELSE LET work_minutes == parse_work_duration_to_minutes(cfg.min_work_duration)
             first_pair == timeline.pairs[1]
             window == parse_lunch_window(cfg.lunch_window)
             lunch == IF /\ first_pair.lunch_minutes = 0
                         /\ IsSome(window)
                         /\ StartsInTime(first_pair.in_event.time, Unwrap(window)[2])
                      THEN cfg.min_duration_lunch_break
                      ELSE first_pair.lunch_minutes
         IN work_minutes + lunch

calculate_surplus(timeline, expected) == timeline.total_worked_minutes - expected

\* Core::build_daily_summary
build_daily_summary(evs, cfg) ==
    LET timeline == build_timeline(evs)
        expected == calculate_expected(timeline, cfg)
    IN [timeline |-> timeline, expected |-> expected,
        surplus |-> calculate_surplus(timeline, expected)]

\* print_daily_row (cli/commands/list.rs): the surplus it prints and returns,
\* the last Out against first In + expected; None without pair or without Out.
print_daily_row(summary) ==
    LET pairs == summary.timeline.pairs
        closed == {i \in 1..Len(pairs) : IsSome(pairs[i].out_event)}
        last == CHOOSE i \in closed : \A j \in closed : j <= i
        expected_exit == pairs[1].in_event.time + summary.expected
    IN IF pairs = <<>> \/ closed = {} THEN None
       ELSE Some(Unwrap(pairs[last].out_event).time - expected_exit)

\* ---- SpecSummary: the daily summary of days of every shape ------------------
\* Clock times in minutes after midnight: 09:00, 14:00, 14:10.
ClockTimes == {540, 840, 850}
LunchValues == {0, 30}

\* Config::default (min_work_duration "8h", lunch_window "12:30-14:00"), and a
\* configuration whose lunch_window is malformed.
DefaultConfig ==
    [min_work_duration |-> <<"8", "h">>,
     lunch_window |-> <<"1", "2", ":", "3", "0", "-", "1", "4", ":", "0", "0">>,
     min_duration_lunch_break |-> min_duration_lunch_break]
Configs == {DefaultConfig, [DefaultConfig EXCEPT !.lunch_window = <<"1", "2">>]}

InitSummary ==
    /\ \E n \in 0..MaxEvents :
         \E tk \in [1..n -> ClockTimes \X {"in", "out"}] :
           \E lunch \in [1..n -> LunchValues] :
              /\ events = {[Row(i, tk[i]) EXCEPT !.lunch = lunch[i]] : i \in 1..n}
              /\ nextId = n + 1
    /\ input \in Configs
    /\ computed = None
    /\ op = "none"
    /\ result = "none"
    /\ pending = <<>>
    /\ outcome = "none"
    /\ seen = None
    /\ shuffled = {}
    /\ listed = None
    /\ work_sessions = None
    /\ aggregated = None

\* list: load the date's events, build the summary, print the daily row.
DailySummary ==
    /\ computed = None
    /\ LET summary == build_daily_summary(load_events_by_date(events, Today), input)
       IN computed' = Some([summary |-> summary,
                            printed |-> print_daily_row(summary)])
    /\ op' = "list"
    /\ UNCHANGED <<events, nextId, result, concVars, pairVars, legacyVars, input>>

NextSummary == DailySummary

SpecSummary == InitSummary /\ [][NextSummary]_vars

\* ---- SpecDates: the lenient assignment over more than one date --------------
\* A second date, later than Today.
Tomorrow == "D2"

\* db::list_events (db.rs): ORDER BY date ASC, time ASC.
list_events(tbl) ==
    list_events_by_date(tbl, Today) \o list_events_by_date(tbl, Tomorrow)

\* Any rows of the two dates.
InitDates ==
    /\ \E n \in 0..MaxEvents :
         \E tk \in [1..n -> (1..MaxTime) \X {"in", "out"}] :
           \E d \in [1..n -> {Today, Tomorrow}] :
              /\ events = {[Row(i, tk[i]) EXCEPT !.date = d[i]] : i \in 1..n}
              /\ nextId = n + 1
    /\ computed = None
    /\ input = None
    /\ op = "none"
    /\ result = "none"
    /\ pending = <<>>
    /\ outcome = "none"
    /\ seen = None
    /\ shuffled = {}
    /\ listed = None
    /\ work_sessions = None
    /\ aggregated = None

\* handle_list --events: list every event, assign the pairs.
ListAll ==
    /\ computed = None
    /\ computed' = Some(compute_event_pairs(list_events(events)))
    /\ op' = "list_events"
    /\ UNCHANGED <<events, nextId, result, concVars, pairVars, legacyVars, input>>

NextDates == ListAll

SpecDates == InitDates /\ [][NextDates]_vars

\* ---- SpecRecalc: the strict assignment next to the lenient one ---------------
\* One call of recalc_pairs_for_date on a table of any shape: the UPDATEs it
\* executed stay in the table, whatever it returns.
Recalc ==
    /\ result = "none"
    /\ LET o == recalc_pairs_for_date(events, nextId, Today)
       IN /\ events' = Last(events, o.trace)
          /\ result' = o.result
    /\ op' = "recalc"
    /\ UNCHANGED <<nextId, concVars, pairVars, legacyVars, calcVars>>

NextRecalc == Recalc \/ ListPairs

SpecRecalc == InitPairs /\ [][NextRecalc]_vars

\* ---- calculate_expected_exit (core/logic.rs) --------------------------------
\* i32 division and remainder truncate toward zero.
TruncDiv(a, b) == IF a >= 0 THEN a \div b ELSE -((-a) \div b)
TruncRem(a, b) == a - b * TruncDiv(a, b)

\* The decimal digits of a natural number.
RECURSIVE Decimal(_)
Decimal(n) ==
    LET d == SubSeq(<<"0", "1", "2", "3", "4", "5", "6", "7", "8", "9">>,
                    (n % 10) + 1, (n % 10) + 1)
    IN IF n < 10 THEN d ELSE Decimal(n \div 10) \o d

\* format!("{:02}", n): zero-padded to width 2, the sign counted in the width.
Format02(n) ==
    IF n < 0 THEN <<"-">> \o Decimal(-n)
    ELSE IF n < 10 THEN <<"0">> \o Decimal(n)
    ELSE Decimal(n)

\* (mutant) the date never advances
NoDaysToAdd(exit_total_min) == 0

\* days_to_add = exit_total_min / (24 * 60)
DaysToAdd(exit_total_min) == TruncDiv(exit_total_min, 24 * 60)

\* The NaiveDateTime returned, as [date, time] with the date a day number and
\* the time in minutes after midnight; None when an expect() panics.
calculate_expected_exit(date, time_in, work_minutes, lunch_total) ==
    LET colon == find(time_in, ":")
        hours == unwrap_or(parse_i64(SubSeq(time_in, 1, Unwrap(colon) - 1)), 0)
        minutes == unwrap_or(parse_i64(SubSeq(time_in, Unwrap(colon) + 1,
                                              Len(time_in))), 0)
        start_total_min == hours * 60 + minutes
        exit_total_min == start_total_min + work_minutes + lunch_total
        exit_hours == TruncRem(TruncDiv(exit_total_min, 60), 24)
        exit_minutes == TruncRem(exit_total_min, 60)
        exit_time == parse_hm(Format02(exit_hours) \o <<":">> \o Format02(exit_minutes))
        final_date == date + DaysToAdd(exit_total_min)
    IN IF colon = None \/ exit_time = None THEN None
       ELSE Some([date |-> final_date, time |-> Unwrap(exit_time)])

\* ---- SpecExit: expected exits of every start time and duration --------------
MaxDate == 1
StartTimes == {<<"0", "0", ":", "0", "0">>, <<"0", "9", ":", "0", "5">>,
               <<"1", "3", ":", "3", "0">>, <<"2", "3", ":", "5", "9">>}
WorkMinutes == {0, 1, 480, 625, 1440, 2880}
LunchTotals == {0, 30, 90}

InitExit ==
    /\ input \in [date : 0..MaxDate, time_in : StartTimes,
                  work_minutes : WorkMinutes, lunch_total : LunchTotals]
    /\ computed = None
    /\ events = {}
    /\ nextId = 1
    /\ op = "none"
    /\ result = "none"
    /\ pending = <<>>
    /\ outcome = "none"
    /\ seen = None
    /\ shuffled = {}
    /\ listed = None
    /\ work_sessions = None
    /\ aggregated = None

ExpectedExit ==
    /\ computed = None
    /\ computed' = Some(calculate_expected_exit(input.date, input.time_in,
                                                input.work_minutes,
                                                input.lunch_total))
    /\ op' = "expected_exit"
    /\ UNCHANGED <<events, nextId, result, concVars, pairVars, legacyVars, input>>

NextExit == ExpectedExit

SpecExit == InitExit /\ [][NextExit]_vars

\* ==== properties ==============================================================
AddBranches == {"lunch_only", "nothing", "start_only", "end_only", "start_end",
                "edit"}

\* A table with the derived pair column blanked.
StripPair(tbl) == {[r EXCEPT !.pair = 0] : r \in tbl}

\* The kinds of a time-ordered sequence alternate In, Out, In, ... from In.
Alternates(evs) ==
    \A i \in 1..Len(evs) : evs[i].kind = (IF i % 2 = 1 THEN "in" ELSE "out")

\* The outcome AddLogic::apply has from the current state.
AddOutcome(a) == AddLogic_apply(events, nextId, a)

\* C1: AddLogic::apply is all-or-nothing: a call that returns an error leaves
\* the date's rows (their number and every field) as they were before it.
C1_AllOrNothing ==
    [][(op' \in AddBranches /\ result' # "Ok") => events' = events]_vars

\* C2: after any sequence of add, edit and delete calls that each returned
\* success, every remaining event carries the pair id the strict assignment
\* computes from the current events (recalculating succeeds, changes nothing).
C2_PairsAreDerived ==
    LET o == recalc_pairs_for_date(events, nextId, Today)
    IN o.result = "Ok" /\ Last(events, o.trace) = events

\* C3: a second process that reads while an insert/update + recalculation is
\* running never sees pair = 0, nor a pair id other than the one the event has
\* when the call has returned.
C3_ReaderSeesFinalPairs ==
    (IsSome(seen) /\ Unwrap(seen).during /\ op \in AddBranches) =>
        /\ \A e \in Unwrap(seen).tbl : e.pair # 0
        /\ result # "running" =>
              \A e \in Unwrap(seen).tbl :
                 \A f \in events : f.id = e.id => f.pair = e.pair

C5_RecalcErrorKeepsPairs ==
    [][\A a \in AddArgs(Small) \cup EditArgs(Small) :
          (/\ Call(a, Small)
           /\ IsSome(AddOutcome(a).recalc_from)
           /\ result' # "Ok") =>
              events' = Unwrap(AddOutcome(a).recalc_from)]_vars

\* ---- lenient assignment -----------------------------------------------------
\* The number of In events still open just before position j when every Out
\* closes one open In, if there is one.
RECURSIVE OpenBefore(_, _)
OpenBefore(L, j) ==
    IF j <= 1 THEN 0
    ELSE LET k == OpenBefore(L, j - 1)
         IN IF L[j - 1].event.kind = "in" THEN k + 1
            ELSE IF k > 0 THEN k - 1 ELSE 0

IsIn(L, i) == L[i].event.kind = "in"
IsOut(L, i) == L[i].event.kind = "out"

\* The position of the k-th In of L.
NthIn(L, k) ==
    CHOOSE p \in 1..Len(L) :
        IsIn(L, p) /\ Cardinality({q \in 1..p : IsIn(L, q)}) = k

\* The earliest In still open just before position j: FIFO closing has closed
\* as many In events, from the first on, as Outs found one open.
EarliestOpen(L, j) ==
    NthIn(L, 1 + Cardinality({i \in 1..(j - 1) :
                                 IsOut(L, i) /\ OpenBefore(L, i) > 0}))

MaxPairBefore(L, j) ==
    IF j = 1 THEN 0
    ELSE CHOOSE m \in {L[i].pair : i \in 1..(j - 1)} :
            \A i \in 1..(j - 1) : L[i].pair <= m

Shape(L) == [i \in 1..Len(L) |-> <<L[i].event.time, L[i].event.kind>>]

Listed == Unwrap(listed)[1]
ListedShuffled == Unwrap(listed)[2]

\* C6: every Out takes the pair id of the earliest In still open at that point
\* and both are marked matched; the In events have pairwise distinct ids; for
\* In@1, In@2, Out@3 the Out gets pair 1 and In@2 stays unmatched with pair 2.
C6_FifoClosing ==
    IsSome(listed) =>
        /\ \A j \in 1..Len(Listed) :
              (IsOut(Listed, j) /\ OpenBefore(Listed, j) > 0) =>
                  LET p == EarliestOpen(Listed, j)
                  IN /\ Listed[j].pair = Listed[p].pair
                     /\ ~Listed[j].unmatched
                     /\ ~Listed[p].unmatched
        /\ \A i, j \in 1..Len(Listed) :
              (IsIn(Listed, i) /\ IsIn(Listed, j) /\ i # j) =>
                  Listed[i].pair # Listed[j].pair
        /\ Shape(Listed) = <<<<1, "in">>, <<2, "in">>, <<3, "out">>>> =>
              /\ [i \in 1..3 |-> Listed[i].pair] = <<1, 2, 1>>
              /\ [i \in 1..3 |-> Listed[i].unmatched] = <<FALSE, TRUE, FALSE>>

\* An Out arrives while two In events are open.
C6_Witness ==
    /\ IsSome(listed)
    /\ \E j \in 1..Len(Listed) : IsOut(Listed, j) /\ OpenBefore(Listed, j) >= 2

\* The (time, kind, pair, unmatched) assignments of a listing.
Assignment(L) ==
    {[time |-> L[i].event.time, kind |-> L[i].event.kind, pair |-> L[i].pair,
      unmatched |-> L[i].unmatched] : i \in 1..Len(L)}

\* C7: the lenient assignment gives each event of a date the same pair id and
\* unmatched flag whatever the order in which the events were inserted, also
\* when two events share a time.
C7_OrderIndependent ==
    IsSome(listed) => Assignment(Listed) = Assignment(ListedShuffled)

\* C8: an Out met while no In is open gets a fresh pair id (the counter, i.e.
\* the largest id so far, plus one) and is flagged unmatched; a day holding a
\* single Out yields exactly one unmatched pair, numbered 1.
C8_OrphanOut ==
    IsSome(listed) =>
        /\ Len(Listed) = Cardinality(events)
        /\ \A j \in 1..Len(Listed) :
              (IsOut(Listed, j) /\ OpenBefore(Listed, j) = 0) =>
                  /\ Listed[j].unmatched
                  /\ Listed[j].pair = MaxPairBefore(Listed, j) + 1
                  /\ \A i \in 1..Len(Listed) :
                        i # j => Listed[i].pair # Listed[j].pair
        /\ (Len(Listed) = 1 /\ IsOut(Listed, 1)) =>
              Listed[1].pair = 1 /\ Listed[1].unmatched

\* An Out with no open In, after earlier events.
C8_Witness ==
    /\ IsSome(listed)
    /\ \E j \in 2..Len(Listed) : IsOut(Listed, j) /\ OpenBefore(Listed, j) = 0

\* ---- add with an end time ---------------------------------------------------
\* The In events of the table that have no Out yet.
OpenIns(tbl) ==
    LET L == compute_event_pairs(list_events_by_date(tbl, Today))
    IN {L[i].event : i \in {i \in 1..Len(L) : IsIn(L, i) /\ L[i].unmatched}}

MostRecent(S) == CHOOSE x \in S : \A y \in S \ {x} : Before(y, x)

C10_StartEnd ==
    [][\A a \in AddArgs(Wide) :
          (Branch(a) = "start_end" /\ Call(a, Wide)) =>
              /\ Unwrap(a.end) <= Unwrap(a.start) =>
                    result' = "InvalidTime" /\ events' = events
              /\ result' = "Ok" =>
                    \E i, o \in events' :
                       /\ i.kind = "in" /\ i.time = Unwrap(a.start)
                       /\ o.kind = "out" /\ o.time = Unwrap(a.end)
                       /\ \A r \in events : r.id # i.id /\ r.id # o.id
                       /\ StripPair(events' \ {i, o}) = StripPair(events)
                       /\ i.pair = o.pair
                       /\ \A r \in events' \ {i, o} : r.pair # i.pair]_vars

\* ---- add with only a lunch value --------------------------------------------
\* The rows of the table with the latest time.
Latest(tbl) == {r \in tbl : \A q \in tbl : q.time <= r.time}

\* C11: a lunch-only add on a date with no events returns InvalidTime and
\* changes nothing; otherwise it returns Ok and the table differs from the one
\* before in the lunch field of one row with the latest time, and nothing else.
C11_LunchOnly ==
    \A a \in AddArgs(Lunch) :
        Branch(a) = "lunch_only" =>
            LET o == AddOutcome(a)
                after == Last(events, o.trace)
            IN IF events = {}
               THEN o.result = "InvalidTime" /\ after = events
               ELSE /\ o.result = "Ok"
                    /\ \E r \in Latest(events) :
                          after = (events \ {r}) \cup
                                  {[r EXCEPT !.lunch = Unwrap(a.lunch)]}

\* A lunch-only add has set the lunch of the later of two events.
C11_Witness ==
    /\ op = "lunch_only"
    /\ result = "Ok"
    /\ \E r, q \in events : r.time > q.time /\ r.lunch = 30 /\ q.lunch = 0

\* ---- edit mode ---------------------------------------------------------------
\* The stored row with the id of a loaded event.
Stored(tbl, ev) == CHOOSE r \in tbl : r.id = ev.id

\* C12: after an edit that returned Ok, each event the edited pair had keeps
\* the stored value of every field the caller did not supply: its location
\* without --pos, its time without --in (In) or --out (Out), its lunch without
\* --lunch.
C12_OmittedFieldsKept ==
    [][\A a \in EditArgs(Rich) :
          (Call(a, Rich) /\ result' = "Ok") =>
              LET loaded == load_pair_by_index(events, Today, Unwrap(a.pair))
              IN \A side \in 1..2 :
                    IsSome(loaded.pair[side]) =>
                        LET old == Stored(events, Unwrap(loaded.pair[side]))
                            new == Stored(events', old)
                            time_given == IF side = 1 THEN a.start ELSE a.end
                        IN /\ a.pos = None => new.location = old.location
                           /\ time_given = None => new.time = old.time
                           /\ a.lunch = None => new.lunch = old.lunch]_vars

\* The edit has created the missing side of the pair: one row more, of the
\* given kind at the given time; the row the pair had is still there, and the
\* pair at the same index now has an In and an Out.
MissingCreated(after, a, kind, time, existing) ==
    /\ Cardinality(after) = Cardinality(events) + 1
    /\ \E n \in after :
          /\ n.kind = kind /\ n.time = time
          /\ {r.id : r \in after} = {r.id : r \in events} \cup {n.id}
          /\ \A r \in events : r.id # n.id
          /\ \E k \in after : k.id = existing.id /\ k.kind = existing.kind
          /\ LET p == load_pair_by_index(after, Today, Unwrap(a.pair))
             IN /\ p.ok
                /\ IsSome(p.pair[1]) /\ IsSome(p.pair[2])

\* C13: an edit that returns Ok, of a pair that has only an Out with a start
\* time, or of a pair that has only an In with an end time, inserts exactly
\* one event of the missing kind at that time and keeps the existing event:
\* the date has one event more and the pair has an In and an Out.
C13_MissingSideCreated ==
    [][\A a \in EditArgs(Edits) :
          LET loaded == load_pair_by_index(events, Today, Unwrap(a.pair))
          IN (Call(a, Edits) /\ result' = "Ok" /\ loaded.ok) =>
                /\ (loaded.pair[1] = None /\ IsSome(a.start)) =>
                      MissingCreated(events', a, "in", Unwrap(a.start),
                                     Unwrap(loaded.pair[2]))
                /\ (loaded.pair[2] = None /\ IsSome(a.end)) =>
                      MissingCreated(events', a, "out", Unwrap(a.end),
                                     Unwrap(loaded.pair[1]))]_vars

\* The number of logical pairs of the date.
NumPairs(tbl) == Len(LogicalPairs(load_events_by_date(tbl, Today), 1, <<>>))

PairArgs(D) == EditArgs(D) \cup {d \in DelArgs(D) : IsSome(d.pair)}

\* C15: an edit or a delete addressed to pair 0, or to an index greater than
\* the number of logical pairs of the date, ends with InvalidPair (on a date
\* without events a delete may report NoEventsForDate instead), does not
\* crash, and leaves every event of the date unchanged.
C15_OutOfRangePair ==
    [][\A a \in PairArgs(Small) :
          (/\ Call(a, Small)
           /\ (Unwrap(a.pair) = 0 \/ Unwrap(a.pair) > NumPairs(events))) =>
              /\ events' = events
              /\ result' \in (IF events = {} /\ a.name = "del"
                              THEN {"InvalidPair", "NoEventsForDate"}
                              ELSE {"InvalidPair"})]_vars

\* ---- delete one pair ---------------------------------------------------------
\* The ids of the events that pair assignment labels with pair id n.
PairIds(tbl, n) ==
    LET L == compute_event_pairs(list_events_by_date(tbl, Today))
    IN {L[i].event.id : i \in {j \in 1..Len(L) : L[j].pair = n}}

\* C16: a delete of pair N that returns Ok has removed exactly the events that
\* pair assignment labels with pair id N, and no other event.
C16_DeletesLabelledPair ==
    [][\A d \in DelArgs(Small) :
          (IsSome(d.pair) /\ Call(d, Small) /\ result' = "Ok") =>
              events' = {r \in events : r.id \notin PairIds(events, Unwrap(d.pair))}]_vars


\* C20: aggregate_position_from_events returns None for a date without events,
\* the one location code when every event of the date has the same location,
\* and "M" (Mixed) when at least two distinct locations occur, in whatever
\* order the rows are read.
C20_AggregatePosition ==
    IsSome(aggregated) =>
        LET S == {r.location : r \in events}
            returned == Unwrap(aggregated).returned
        IN /\ S = {} => returned = None
           /\ Cardinality(S) = 1 => (IsSome(returned) /\ Unwrap(returned) \in S)
           /\ Cardinality(S) >= 2 => returned = Some("M")

\* A date whose events have two or more locations was aggregated, the rows
\* read in descending order of their codes.
C20_Witness ==
    /\ IsSome(aggregated)
    /\ Cardinality({r.location : r \in events}) >= 2
    /\ Unwrap(aggregated).rows[1] = "R"
    /\ Unwrap(aggregated).rows[2] = "O"
    /\ Unwrap(aggregated).returned = Some("M")


\* The date's aggregate row after a delete that left events behind.
Session == Unwrap(work_sessions)
PairDeleted == op = "del_pair" /\ result = "Deleted" /\ events # {}
Times(rows) == {r.time : r \in rows}
Least(S) == CHOOSE t \in S : \A u \in S : t <= u
Greatest(S) == CHOOSE t \in S : \A u \in S : u <= t
Ins(rows) == {r \in rows : r.kind = "in"}

C18_PositionOfSurvivors ==
    \A pair_id \in 1..LegacyId :
       \A o \in handle_del_pair(Current, pair_id, TRUE) :
          (o.result = "Deleted" /\ o.st.events # {}) =>
             LET S == {r.location : r \in o.st.events}
             IN /\ IsSome(o.st.ws)
                /\ Cardinality(S) = 1 => Unwrap(o.st.ws).position \in S
                /\ Cardinality(S) >= 2 =>
                      /\ IsSome(work_sessions)
                      /\ Unwrap(o.st.ws).position = Session.position

\* A pair was deleted from a Mixed day, the survivors still have two distinct
\* locations and the stored position is still Mixed.
C18_Witness ==
    /\ PairDeleted
    /\ Cardinality({r.location : r \in events}) >= 2
    /\ Session.position = "M"

\* C19: whenever a delete leaves no event on the date (the whole day deleted,
\* or the last remaining pair), no work_sessions row of the date remains.
C19_NoEventsNoSession ==
    (op \in {"del_pair", "del_day"} /\ result = "Deleted" /\ events = {}) =>
        work_sessions = None

\* The last remaining pair of a day was deleted and the aggregate row is gone.
C19_Witness ==
    /\ op = "del_pair"
    /\ result = "Deleted"
    /\ events = {}
    /\ work_sessions = None
    /\ nextId > 1


\* The forms of a work duration: "8h", "7h 36m", "HH:MM", a bare integer.
IsNumber(s) == s # <<>> /\ \A i \in 1..Len(s) : s[i] \in Digits
OnlySpaces(s) == \A i \in 1..Len(s) : s[i] = " "
Cuts(s) == 0..Len(s)
Part(s, a, b) == SubSeq(s, a + 1, b)

\* The minutes the forms denote for a text, the empty set for any other text.
Denoted(s) ==
    (IF IsNumber(s) THEN {DecimalValue(s) * 60} ELSE {})
    \cup {DecimalValue(Part(s, 0, i)) * 60 :
            i \in {j \in Cuts(s) : /\ j + 1 = Len(s)
                                   /\ s[Len(s)] = "h"
                                   /\ IsNumber(Part(s, 0, j))}}
    \cup {DecimalValue(Part(s, 0, i)) * 60 + DecimalValue(Part(s, i + 1, Len(s))) :
            i \in {j \in Cuts(s) : /\ j + 1 <= Len(s)
                                   /\ s[j + 1] = ":"
                                   /\ IsNumber(Part(s, 0, j))
                                   /\ IsNumber(Part(s, j + 1, Len(s)))}}
    \cup UNION {{DecimalValue(Part(s, 0, i)) * 60 + DecimalValue(Part(s, k, Len(s) - 1)) :
                   k \in {l \in (i + 1)..Len(s) :
                            /\ OnlySpaces(Part(s, i + 1, l))
                            /\ IsNumber(Part(s, l, Len(s) - 1))}} :
                 i \in {j \in Cuts(s) : /\ j + 2 <= Len(s)
                                        /\ s[j + 1] = "h"
                                        /\ s[Len(s)] = "m"
                                        /\ IsNumber(Part(s, 0, j))}}

\* C25: parse_work_duration_to_minutes returns h*60+m for "8h", "7h 36m" and
\* "HH:MM", h*60 for a bare integer h, and exactly 480 for every text of none
\* of these forms.
C25_ParseOrDefault ==
    IsSome(computed) =>
        IF Denoted(trim(input)) # {}
        THEN Unwrap(computed) \in Denoted(trim(input))
        ELSE Unwrap(computed) = 480


\* The timeline of the summary computed last.
Timeline == Unwrap(computed).summary.timeline

\* C21: every Pair of build_timeline has duration_minutes >= 0, also when the
\* lunch minutes on the In exceed the minutes between the In and its Out, so
\* total_worked_minutes is never negative.
C21_DurationNeverNegative ==
    IsSome(computed) =>
        /\ \A i \in 1..Len(Timeline.pairs) : Timeline.pairs[i].duration_minutes >= 0
        /\ Timeline.total_worked_minutes >= 0


\* The day's first In, in the order the events are loaded.
FirstIn == CHOOSE r \in Ins(events) : \A q \in Ins(events) \ {r} : Before(r, q)

\* C22: for a timeline with at least one pair, calculate_expected is
\* work_minutes + lunch, lunch being the first pair's lunch minutes if not
\* zero, else min_lunch when the first In is at or before the end of the lunch
\* window, else 0 (quota 8h = 480, window end 14:00 = 840, min_lunch 30).
C22_ExpectedMinutes ==
    (IsSome(computed) /\ input = DefaultConfig /\ Ins(events) # {}) =>
        Unwrap(computed).summary.expected =
            480 + (IF FirstIn.lunch # 0 THEN FirstIn.lunch
                   ELSE IF FirstIn.time <= 840 THEN 30
                   ELSE 0)

\* The summary of a day whose first In is at 09:00 without lunch: 510 expected.
C22_Witness ==
    /\ IsSome(computed)
    /\ input = DefaultConfig
    /\ Ins(events) # {}
    /\ FirstIn.time = 540
    /\ FirstIn.lunch = 0
    /\ Unwrap(computed).summary.expected = 510


\* C23: for a day with exactly one closed pair, whatever lunch its In carries,
\* the surplus from the summed durations (calculate_surplus) equals the
\* surplus from the wall-clock times (print_daily_row).
C23_SurplusAgrees ==
    (/\ IsSome(computed)
     /\ Len(Timeline.pairs) = 1
     /\ IsSome(Timeline.pairs[1].out_event)) =>
        Unwrap(computed).printed = Some(Unwrap(computed).summary.surplus)


\* The position in the time-sorted sequence S of its k-th In event.
KthIn(S, k) ==
    CHOOSE i \in 1..Len(S) :
        /\ S[i].kind = "in"
        /\ Cardinality({j \in 1..i : S[j].kind = "in"}) = k

RECURSIVE SumDurations(_, _)
SumDurations(pairs, n) ==
    IF n = 0 THEN 0 ELSE SumDurations(pairs, n - 1) + pairs[n].duration_minutes

\* C27: build_timeline sorts the day's events by time and produces one Pair
\* per In, in that order: closed with duration (out - in) - the In's lunch
\* when the next event of the sorted sequence is an Out, open with duration 0
\* otherwise; no other Out enters a pair, and total_worked_minutes is the sum
\* of the pairs' durations.
C27_TimelinePairs ==
    IsSome(computed) =>
        LET S == Timeline.events
            P == Timeline.pairs
        IN /\ Len(S) = Cardinality(events)
           /\ {S[i].id : i \in 1..Len(S)} = {r.id : r \in events}
           /\ \A i \in 1..(Len(S) - 1) : S[i].time <= S[i + 1].time
           /\ Len(P) = Cardinality({i \in 1..Len(S) : S[i].kind = "in"})
           /\ \A k \in 1..Len(P) :
                LET i == KthIn(S, k)
                IN /\ P[k].in_event = S[i]
                   /\ IF i < Len(S) /\ S[i + 1].kind = "out"
                      THEN /\ P[k].out_event = Some(S[i + 1])
                           /\ P[k].duration_minutes =
                                (S[i + 1].time - S[i].time) - Unwrap(S[i].lunch)
                      ELSE /\ P[k].out_event = None
                           /\ P[k].duration_minutes = 0
           /\ Timeline.total_worked_minutes = SumDurations(P, Len(P))

\* A day In(lunch 30), Out, Out: one closed pair of 300 - 30 minutes, the
\* second Out in no pair.
C27_Witness ==
    /\ IsSome(computed)
    /\ Len(Timeline.events) = 3
    /\ Len(Timeline.pairs) = 1
    /\ Timeline.events[3].kind = "out"
    /\ Timeline.pairs[1].duration_minutes = 270
    /\ Timeline.total_worked_minutes = 270


\* The minutes after midnight that a five-character HH:MM text denotes.
HHMMValue(t) ==
    (DigitValue(t[1]) * 10 + DigitValue(t[2])) * 60
        + DigitValue(t[4]) * 10 + DigitValue(t[5])

\* C24: calculate_expected_exit returns the date-time lying exactly
\* HH*60 + MM + work_minutes + lunch_total minutes after 00:00 of the given
\* date, the date advanced by the whole days and the clock time wrapped.
C24_ExpectedExit ==
    (op = "expected_exit" /\ IsSome(computed)) =>
        LET r == Unwrap(computed)
        IN /\ IsSome(r)
           /\ Unwrap(r).time \in 0..1439
           /\ Unwrap(r).date * 1440 + Unwrap(r).time =
                input.date * 1440 + HHMMValue(input.time_in)
                    + input.work_minutes + input.lunch_total

\* 23:59 + 2880 + 90 minutes: two whole days and 01:29 later, on the third day.
C24_Witness ==
    /\ op = "expected_exit"
    /\ IsSome(computed)
    /\ input.time_in = <<"2", "3", ":", "5", "9">>
    /\ input.work_minutes = 2880
    /\ input.lunch_total = 90
    /\ Unwrap(computed) = Some([date |-> input.date + 3, time |-> 89])


\* The ids of the events in the pair load_pair_by_index returns for index n
\* (none when it returns Err).
LoadedIds(n) ==
    LET loaded == load_pair_by_index(events, Today, n)
    IN IF loaded.ok
       THEN {Unwrap(loaded.pair[k]).id : k \in {j \in 1..2 : IsSome(loaded.pair[j])}}
       ELSE {}

\* C26: for every index N, the pair load_pair_by_index loads for N consists of
\* exactly the events compute_event_pairs labels with pair id N.
C26_LoadedPairIsLabelledPair ==
    IsSome(listed) =>
        LET labelled == Unwrap(listed)[1]
        IN \A n \in 1..(Cardinality(events) + 1) :
              LoadedIds(n) = {labelled[i].event.id :
                                i \in {j \in 1..Len(labelled) : labelled[j].pair = n}}


\* The date's rows in time order, as stored.
Day == list_events_by_date(events, Today)

\* C28: when recalc_pairs_for_date has returned Ok, the date's events in time
\* order are In, Out, In, Out, ... and carry the pair ids 1, 1, 2, 2, ...: no
\* event is left with pair 0.
C28_RecalcIds ==
    (op = "recalc" /\ result = "Ok") =>
        \A i \in 1..Len(Day) :
            /\ Day[i].pair = (i + 1) \div 2
            /\ Day[i].kind = (IF i % 2 = 1 THEN "in" ELSE "out")

\* In, Out, In recalculated: ids 1, 1 and, for the trailing open In, 2.
C28_Witness ==
    /\ op = "recalc"
    /\ result = "Ok"
    /\ Len(Day) = 3
    /\ Day[3].kind = "in"
    /\ Day[3].pair = 2

\* The date's events alternate In, Out, ... starting with In.
Alternating ==
    \A i \in 1..Len(Day) : Day[i].kind = (IF i % 2 = 1 THEN "in" ELSE "out")

\* C29: on a date whose events in time order strictly alternate In, Out
\* starting with In, recalc_pairs_for_date returns Ok and stores for every
\* event the pair id compute_event_pairs gives it.
C29_LenientEqualsStrict ==
    (result # "none" /\ IsSome(listed) /\ Alternating) =>
        LET labelled == Unwrap(listed)[1]
        IN /\ result = "Ok"
           /\ Len(labelled) = Len(Day)
           /\ \A i \in 1..Len(labelled) :
                \E r \in events : /\ r.id = labelled[i].event.id
                                  /\ r.pair = labelled[i].pair

C29_Witness ==
    /\ result = "Ok"
    /\ IsSome(listed)
    /\ Alternating
    /\ Len(Day) = 3
    /\ Unwrap(listed)[1][3].pair = 2
    /\ Day[3].pair = 2


\* The positions in the output L of the events of date d.
OfDate(L, d) == {i \in 1..Len(L) : L[i].event.date = d}

\* C30: in the output of compute_event_pairs, within every date: a pair id is
\* carried by at most one In and at most one Out, an Out sharing its id with
\* an In comes after that In, an event is flagged unmatched exactly when no
\* other event of the date has its id, and the ids used are 1..k; so an Out
\* never closes an In of another date.
C30_PairsPerDate ==
    (op = "list_events" /\ IsSome(computed)) =>
        LET L == Unwrap(computed)
        IN /\ Len(L) = Cardinality(events)
           /\ \A d \in {Today, Tomorrow} :
                LET E == OfDate(L, d)
                    ids == {L[i].pair : i \in E}
                IN /\ \A i, j \in E :
                        (L[i].pair = L[j].pair /\ i < j) =>
                            /\ L[i].event.kind = "in"
                            /\ L[j].event.kind = "out"
                   /\ \A i \in E :
                        L[i].unmatched <=> (\A j \in E \ {i} : L[j].pair # L[i].pair)
                   /\ ids = 1..Cardinality(ids)

\* An In left open on the first date and an Out on the second: both are
\* unmatched and both carry id 1 of their own date.
C30_Witness ==
    /\ op = "list_events"
    /\ IsSome(computed)
    /\ Len(Unwrap(computed)) = 2
    /\ Unwrap(computed)[1].event.date = Today
    /\ Unwrap(computed)[1].event.kind = "in"
    /\ Unwrap(computed)[2].event.date = Tomorrow
    /\ Unwrap(computed)[2].event.kind = "out"
    /\ Unwrap(computed)[2].unmatched
    /\ Unwrap(computed)[2].pair = 1

====
